---- MODULE Spec2Model ----
(***************************************************************************)
(* Model of the polynomial chaos pipeline of UncertainSCI:                 *)
(*   src/opolynd.py  TensorialPolynomials (eval, idist_mixture_sampling,   *)
(*                   wafp_sampling)                                        *)
(*   src/pce.py      PolynomialChaosExpansion (setters, build, accessors)  *)
(*                                                                         *)
(* Numbers.  Points of the polynomial domain [-1,1] are integers in units  *)
(* of 1/HalfGrid, uniform variates of [0,1) are integers u in 0..Grid-1    *)
(* standing for u/Grid.  A floating point array that is not finite carries *)
(* finite = FALSE.  Optional attributes (None in the source) are sequences *)
(* of length 0 (None) or 1 (the value).                                    *)
(***************************************************************************)
EXTENDS Integers, Sequences, FiniteSets, TLC

\* ------------------------------------------------------------------ bounds
HalfGrid == 2
MaxOversampling == 1
MaxSampleRows == 2
MaxQ == 2
MaxStart == 1
CoefMax == 1
SensCoefMax == 2
MaxQuantileQ == 4
MaxDraws == 3

\* -------------------------------------------------------- program constants
PoolMargin == 40
MaxFloats == 1000000

\* ------------------------------------------------------------------ helpers
Grid == 2 * HalfGrid

None == << >>
Some(v) == << v >>
IsNone(o) == o = << >>
Val(o) == o[1]

Max(a, b) == IF a >= b THEN a ELSE b
Min(a, b) == IF a <= b THEN a ELSE b

RECURSIVE SumSeq(_)
SumSeq(s) == IF s = << >> THEN 0 ELSE Head(s) + SumSeq(Tail(s))

\* x[i] of the source for a 0-based index i that may be negative (numpy wraps
\* a negative index around the end), as a 1-based index of a sequence of n rows
PyIndex(i, n) == IF i < 0 THEN i + n + 1 ELSE i + 1

\* ------------------------------------------------- external collaborators
\* np.random: the global generator, kept as a counter stream over the grid of
\* [0,1): the state after n draws from state s
RngAfter(s, n) == (s + n) % Grid

\* OrthogonalPolynomialBasis1D.eval: the degree-n Legendre polynomial at x,
\* scaled by a positive constant so that it stays an integer
polys1d_eval(x, n) ==
    CASE n = 0 -> 1
      [] n = 1 -> x
      [] OTHER -> 3 * x * x - HalfGrid * HalfGrid

\* OrthogonalPolynomialBasis1D.idistinv / fidistinv: inverse induced
\* distribution, a monotone map of [0,1) onto the grid of [-1,1); the fast
\* variant rounds to the coarser grid of even points
idistinv(u, n) == u - HalfGrid
fidistinv(u, n) == 2 * (u \div 2) - HalfGrid

\* distribution.transform_to_standard: physical domain <-> standard variable
to_standard_map(pt) == [k \in 1..Len(pt) |-> pt[k] - 1]
to_standard_mapinv(pt) == [k \in 1..Len(pt) |-> pt[k] + 1]

\* distribution.transform_standard_dist_to_poly: standard variable <-> poly domain
dist_to_poly_map(pt) == [k \in 1..Len(pt) |-> 0 - pt[k]]
dist_to_poly_mapinv(pt) == [k \in 1..Len(pt) |-> 0 - pt[k]]

\* ------------------------------------------------------------- opolynd.py
\* TensorialPolynomials.eval: V[m][n] = product over the dimensions of the
\* univariate evaluations; the assertion on the dimensions fails first
RECURSIVE TensorProduct(_, _, _)
TensorProduct(xrow, lambda, qd) ==
    IF qd = 0 THEN 1
    ELSE TensorProduct(xrow, lambda, qd - 1) * polys1d_eval(xrow[qd], lambda[qd])

eval(polys, x, d, lambdas, d2) ==
    IF ~(d = d2 /\ d2 = polys.dim)
    THEN [err |-> "AssertionError", V |-> << >>]
    ELSE [err |-> "",
          V |-> [m \in 1..Len(x) |->
                   [n \in 1..Len(lambdas) |-> TensorProduct(x[m], lambdas[n], polys.dim)]]]

\* np.sum(V**2, axis=1), for one row
RowNormSq(row) == SumSeq([n \in 1..Len(row) |-> row[n] * row[n]])

\* np.multiply(V.T, 1/np.sqrt(normsq)).T: a row of squared norm 0 is scaled by
\* 1/0 = inf and becomes 0*inf = nan; no exception is raised
Precondition(V) ==
    [m \in 1..Len(V) |->
        LET normsq == RowNormSq(V[m])
        IN  [row |-> V[m], normsq |-> normsq, finite |-> normsq # 0]]

HasNaN(rows) == \E m \in 1..Len(rows) : ~rows[m].finite

\* ks = np.ceil(K * u).astype(int); ks[ks > K] = K
ComponentIndex(K, u) ==
    LET ks == (K * u + Grid - 1) \div Grid
    IN  IF ks > K THEN K ELSE ks

\* TensorialPolynomials.idist_mixture_sampling
idist_mixture_sampling(polys, M, Lambdas, d, fast_sampler, s) ==
    IF ~(M > 0 /\ d = polys.dim)
    THEN [err |-> "AssertionError", x |-> << >>, ks |-> << >>, rng |-> s]
    ELSE
      LET K == Len(Lambdas)
          ks == [i \in 1..M |-> ComponentIndex(K, RngAfter(s, i - 1))]
          L == [i \in 1..M |-> Lambdas[PyIndex(ks[i] - 1, K)]]
          s1 == RngAfter(s, M)
          inv(u, n) == IF fast_sampler THEN fidistinv(u, n) ELSE idistinv(u, n)
          \* isotropic: one M x d block of variates, row by row;
          \* anisotropic: one column of M variates per dimension
          uu(i, qd) == IF polys.isotropic
                       THEN RngAfter(s1, (i - 1) * d + qd - 1)
                       ELSE RngAfter(s1, (qd - 1) * M + i - 1)
      IN [err |-> "",
          x |-> [i \in 1..M |-> [qd \in 1..d |-> inv(uu(i, qd), L[i][qd])]],
          ks |-> ks,
          rng |-> RngAfter(s1, M * d)]

\* utils.linalg.greedy_d_optimal(V, M): an ordered selection of min(M, rows)
\* distinct rows of V; which rows depends on V through a pivoting rule, kept
\* as the walk from row `start` in direction `dir`
greedy_d_optimal(V, M, start, dir) ==
    LET rows == Len(V)
    IN  [i \in 1..Min(M, rows) |-> ((start + dir * (i - 1)) % rows) + 1]

\* faulty variant: a requested pool size is taken as it is, below M too
PoolSize_Unclamped(K, M) == IF IsNone(K) THEN M + PoolMargin ELSE Val(K)

\* faulty variant: no margin of candidates when no pool size is requested
PoolSize_NoMargin(K, M) == IF IsNone(K) THEN M ELSE Max(Val(K), M)

\* K = M + 40 if K is None else max(K, M)
PoolSize(K, M) == IF IsNone(K) THEN M + PoolMargin ELSE Max(Val(K), M)

\* TensorialPolynomials.wafp_sampling
wafp_sampling(polys, indices, d, oversampling, sampler, K, fast_sampler, s, start, dir) ==
    LET M == Len(indices) + oversampling
        Kp == PoolSize(K, M)
    IN  IF sampler # "idist"
        THEN [err |-> "ValueError", x |-> << >>, pool |-> << >>, V |-> << >>, P |-> << >>, rng |-> s]
        ELSE
          LET smp == idist_mixture_sampling(polys, Kp, indices, d, fast_sampler, s)
              ev == eval(polys, smp.x, d, indices, d)
              V == Precondition(ev.V)
              P == greedy_d_optimal(V, M, start % Len(V), dir)
          IN  IF smp.err # ""
              THEN [err |-> smp.err, x |-> << >>, pool |-> << >>, V |-> << >>, P |-> << >>, rng |-> smp.rng]
              ELSE IF ev.err # ""
              THEN [err |-> ev.err, x |-> << >>, pool |-> smp.x, V |-> << >>, P |-> << >>, rng |-> smp.rng]
              ELSE [err |-> "", x |-> [i \in 1..Len(P) |-> smp.x[P[i]]],
                    pool |-> smp.x, V |-> V, P |-> P, rng |-> smp.rng]

\* ----------------------------------------------------------------- pce.py
\* objects handed to the constructor and the setters
MultiIndexSet(rows) == [kind |-> "MultiIndexSet", rows |-> rows]
ProbabilityDistribution(dim, isotropic) ==
    [kind |-> "ProbabilityDistribution", dim |-> dim,
     polys |-> [dim |-> dim, isotropic |-> isotropic]]
Other == [kind |-> "object"]

\* self.indices.indices() and self.distribution.polys / .transform_* exist only
\* on objects of the expected kind; on anything else they raise AttributeError
IsA(o, kind) == ~IsNone(o) /\ Val(o).kind = kind

\* indices.indices().shape
NRows(idx) == Len(idx.rows)
NCols(idx) == Len(idx.rows[1])

Ok(v) == [err |-> "", val |-> v]
Raise(e) == [err |-> e, val |-> << >>]

\* PolynomialChaosExpansion.assert_pce_built
assert_pce_built(self) == IF IsNone(self.coefficients) THEN "NotBuilt" ELSE ""

Coef(self) == Val(self.coefficients)
CoefRows(self) == Len(Coef(self).C)
CoefCols(self) == Len(Coef(self).C[1])

\* PolynomialChaosExpansion.mean
mean(self) ==
    IF assert_pce_built(self) # "" THEN Raise(assert_pce_built(self))
    ELSE Ok([row |-> Coef(self).C[1], finite |-> Coef(self).finite])

\* np.sum(self.coefficients[rows,:]**2, axis=0) for the 1-based rows in `rows`
SumSquares(C, rows) ==
    [q \in 1..Len(C[1]) |->
        SumSeq([n \in 1..Len(C) |-> IF n \in rows THEN C[n][q] * C[n][q] ELSE 0])]

\* faulty variant: the sum of squares skips one row more than the mean's
stdev_SkipsTwoRows(self) ==
    IF assert_pce_built(self) # "" THEN Raise(assert_pce_built(self))
    ELSE Ok([sumsq |-> SumSquares(Coef(self).C, 3..CoefRows(self)),
             finite |-> Coef(self).finite])

\* PolynomialChaosExpansion.stdev: the value is sqrt(sumsq), kept by its square
stdev(self) ==
    IF assert_pce_built(self) # "" THEN Raise(assert_pce_built(self))
    ELSE Ok([sumsq |-> SumSquares(Coef(self).C, 2..CoefRows(self)),
             finite |-> Coef(self).finite])

\* the failures of pce_eval on points of dimension d for the 0-based columns
\* cols: the assertion of polys.eval, the column selection, np.dot
PceEvalErr(self, d, cols) ==
    LET dist == Val(self.distribution)
        idx == Val(self.indices)
    IN  IF ~(d = NCols(idx) /\ NCols(idx) = dist.polys.dim) THEN "AssertionError"
        ELSE IF \E c \in 1..Len(cols) : cols[c] >= CoefCols(self) THEN "IndexError"
        ELSE IF NRows(idx) # CoefRows(self) THEN "ShapeError"
        ELSE ""

\* PolynomialChaosExpansion.pce_eval; components is None or a list of 0-based columns
pce_eval(self, pts, components) ==
    IF assert_pce_built(self) # "" THEN Raise(assert_pce_built(self))
    ELSE
      LET dist == Val(self.distribution)
          idx == Val(self.indices)
          p_std == [m \in 1..Len(pts) |-> to_standard_map(dist_to_poly_map(pts[m]))]
          ev == eval(dist.polys, p_std, Len(pts[1]), idx.rows, NCols(idx))
          cols == IF IsNone(components) THEN [c \in 1..CoefCols(self) |-> c - 1]
                  ELSE Val(components)
      IN  IF PceEvalErr(self, Len(pts[1]), cols) # ""
          THEN Raise(PceEvalErr(self, Len(pts[1]), cols))
          ELSE Ok([m \in 1..Len(pts) |->
                     [c \in 1..Len(cols) |->
                        SumSeq([n \in 1..CoefRows(self) |->
                                  ev.V[m][n] * Coef(self).C[n][cols[c] + 1]])]])

\* PolynomialChaosExpansion.total_sensitivity; dim_indices is None or a list of
\* 0-based dimensions; each value is the fraction num/den
total_sensitivity(self, dim_indices) ==
    IF assert_pce_built(self) # "" THEN Raise(assert_pce_built(self))
    ELSE
      LET idx == Val(self.indices)
          dims == IF IsNone(dim_indices)
                  THEN [k \in 1..Val(self.distribution).dim |-> k - 1]
                  ELSE Val(dim_indices)
          variance == stdev(self).val.sumsq
          mask(j) == {n \in 1..NRows(idx) : idx.rows[n][j + 1] > 0}
      IN  IF \E k \in 1..Len(dims) : dims[k] >= NCols(idx) THEN Raise("IndexError")
          ELSE IF Len(dims) > 0 /\ NRows(idx) # CoefRows(self) THEN Raise("IndexError")
          ELSE Ok([qj \in 1..Len(dims) |->
                     [q \in 1..CoefCols(self) |->
                        [num |-> SumSquares(Coef(self).C, mask(dims[qj]))[q],
                         den |-> variance[q]]]])

\* PolynomialChaosExpansion.global_sensitivity; dim_lists is a list of sets of
\* 0-based dimensions.  The built check is the one inside stdev()
global_sensitivity(self, dim_lists) ==
    IF ~IsA(self.indices, "MultiIndexSet") THEN Raise("AttributeError")
    ELSE IF stdev(self).err # "" THEN Raise(stdev(self).err)
    ELSE
      LET idx == Val(self.indices)
          dim == Val(self.distribution).dim
          variance == stdev(self).val.sumsq
          jc(j) == (0..dim - 1) \ j
          inds(j) == {n \in 1..NRows(idx) :
                        /\ \A k \in j : idx.rows[n][k + 1] > 0
                        /\ \A k \in jc(j) : idx.rows[n][k + 1] = 0}
      IN  IF \E qj \in 1..Len(dim_lists) : \E k \in dim_lists[qj] \cup jc(dim_lists[qj]) :
                 k >= NCols(idx)
          THEN Raise("IndexError")
          ELSE IF Len(dim_lists) > 0 /\ NRows(idx) # CoefRows(self) THEN Raise("IndexError")
          ELSE Ok([qj \in 1..Len(dim_lists) |->
                     [q \in 1..CoefCols(self) |->
                        [num |-> SumSquares(Coef(self).C, inds(dim_lists[qj]))[q],
                         den |-> variance[q]]]])

\* ------------------------------------------------------------ the builder
VARIABLES indices, distribution, coefficients, p, output, rng, pc, call, ret

vars == << indices, distribution, coefficients, p, output, rng, pc, call, ret >>
fields == << coefficients, p, output >>

Self == [indices |-> indices, distribution |-> distribution, coefficients |-> coefficients]

\* the objects the model hands to the constructor and the setters
IndexSets ==
    { MultiIndexSet(<< <<0>> >>),
      MultiIndexSet(<< <<1>> >>),
      MultiIndexSet(<< <<1, 1>> >>) }
Distributions ==
    { ProbabilityDistribution(1, TRUE),
      ProbabilityDistribution(2, FALSE) }

\* sample matrices in the physical domain, with their shape[1]
Points(d) == { [k \in 1..d |-> v] : v \in {1, 2} }
SampleMatrices ==
    UNION { { [rows |-> r, d |-> 1] : r \in [1..m -> Points(1)] } : m \in 0..MaxSampleRows }
    \cup { [rows |-> r, d |-> 2] : r \in [1..1 -> Points(2)] }

\* the keyword arguments of build that reach wafp_sampling
SamplerOptions ==
    { [oversampling |-> 0, sampler |-> "idist", K |-> None, fast_sampler |-> TRUE],
      [oversampling |-> MaxOversampling, sampler |-> "idist", K |-> Some(1), fast_sampler |-> FALSE],
      [oversampling |-> 0, sampler |-> "uniform", K |-> None, fast_sampler |-> TRUE] }

\* the model boundary: a deterministic function of the sample, returning a
\* 1D array of the size the model decides on
model(prow, size) == [k \in 1..size |-> prow[1] + k]

NoCall == [op |-> "none"]
NoOutcome == [op |-> "none", err |-> "", val |-> << >>, calls |-> << >>]

\* the outcome of a call: the exception that left it or the value it returned,
\* and the sizes of the arrays the model returned during it (-1: the model raised)
Returned(op, r) == [op |-> op, err |-> r.err, val |-> r.val, calls |-> << >>]

\* PolynomialChaosExpansion.__init__: any object is stored unchecked
Init ==
    /\ indices \in {None} \cup {Some(o) : o \in IndexSets \cup {Other}}
    /\ distribution \in {None} \cup {Some(o) : o \in Distributions \cup {Other}}
    /\ coefficients = None
    /\ p = None
    /\ output = None
    /\ rng \in 0..Grid - 1
    /\ pc = "idle"
    /\ call = NoCall
    /\ ret = NoOutcome

\* PolynomialChaosExpansion.set_indices
set_indices(obj) ==
    /\ pc = "idle"
    /\ IF obj.kind = "MultiIndexSet"
       THEN indices' = Some(obj) /\ ret' = Returned("set_indices", Ok(<< >>))
       ELSE indices' = indices /\ ret' = Returned("set_indices", Raise("InvalidArgument"))
    /\ pc' = "returned"
    /\ UNCHANGED << distribution, coefficients, p, output, rng, call >>

\* PolynomialChaosExpansion.set_distribution
set_distribution(obj) ==
    /\ pc = "idle"
    /\ IF obj.kind = "ProbabilityDistribution"
       THEN distribution' = Some(obj) /\ ret' = Returned("set_distribution", Ok(<< >>))
       ELSE distribution' = distribution
            /\ ret' = Returned("set_distribution", Raise("InvalidArgument"))
    /\ pc' = "returned"
    /\ UNCHANGED << indices, coefficients, p, output, rng, call >>

\* faulty variant: only the indices are checked
ConfigCheck_IndicesOnly(self) ==
    IF IsNone(self.indices) THEN "NotConfigured" ELSE ""

\* build_pce_wafp, lines 42-45: the configuration check
ConfigCheck(self) ==
    IF IsNone(self.indices) THEN "NotConfigured"
    ELSE IF IsNone(self.distribution) THEN "NotConfigured"
    ELSE ""

\* build_pce_wafp, lines 42-59: the configuration check and the samples.
\* The result carries p, p_standard, their dimension and the generator state
BuildSamples(self, samples, oversampling, sampler, K, fast_sampler, s, start, dir) ==
    LET failed(e, s2) == [err |-> e, p |-> << >>, p_standard |-> << >>, d |-> 0, rng |-> s2]
        idx == Val(self.indices)
        dist == Val(self.distribution)
    IN  IF ConfigCheck(self) # "" THEN failed(ConfigCheck(self), s)
        ELSE IF IsNone(samples)
        THEN IF ~IsA(self.distribution, "ProbabilityDistribution")
                \/ ~IsA(self.indices, "MultiIndexSet")
             THEN failed("AttributeError", s)
             ELSE LET w == wafp_sampling(dist.polys, idx.rows, NCols(idx), oversampling,
                                         sampler, K, fast_sampler, s, start, dir)
                  IN  IF w.err # "" THEN failed(w.err, w.rng)
                      ELSE [err |-> "",
                            p |-> [m \in 1..Len(w.x) |->
                                     to_standard_mapinv(dist_to_poly_mapinv(w.x[m]))],
                            p_standard |-> w.x, d |-> NCols(idx), rng |-> w.rng]
        ELSE IF ~IsA(self.indices, "MultiIndexSet") THEN failed("AttributeError", s)
        ELSE IF Val(samples).d # NCols(idx) THEN failed("DimensionMismatch", s)
        ELSE IF ~IsA(self.distribution, "ProbabilityDistribution")
        THEN failed("AttributeError", s)
        ELSE [err |-> "", p |-> Val(samples).rows,
              p_standard |-> [m \in 1..Len(Val(samples).rows) |->
                                dist_to_poly_map(to_standard_map(Val(samples).rows[m]))],
              d |-> Val(samples).d, rng |-> s]

\* build_pce_wafp, lines 64-69: the array `out` the model returned for row ind
\* (0-based).  The first array fixes the width M of output; a later one is
\* assigned into row ind, where numpy broadcasts an array of size 1 and raises
\* ValueError on any other mismatch
AssignOutput(nrows, ind, outp, out) ==
    IF IsNone(outp)
    THEN [err |-> "",
          output |-> Some([m \in 1..nrows |-> IF m = 1 THEN out ELSE [k \in 1..Len(out) |-> 0]])]
    ELSE LET M == Len(Val(outp)[1])
         IN  IF Len(out) = M
             THEN [err |-> "", output |-> Some([Val(outp) EXCEPT ![ind + 1] = out])]
             ELSE IF Len(out) = 1
             THEN [err |-> "",
                   output |-> Some([Val(outp) EXCEPT ![ind + 1] = [k \in 1..M |-> out[1]]])]
             ELSE [err |-> "InconsistentOutputShape", output |-> outp]

\* build_pce_wafp, lines 61-69: the loop over the samples, from row ind on; the
\* model raises, or returns an array of some size in 1..MaxQ.  The set of the
\* ways the loop can end
RECURSIVE ModelLoop(_, _, _, _)
ModelLoop(pm, ind, outp, calls) ==
    IF ind >= Len(pm)
    THEN { [err |-> "", output |-> outp, calls |-> calls] }
    ELSE { [err |-> "ModelError", output |-> outp, calls |-> Append(calls, -1)] }
         \cup UNION {
              LET a == AssignOutput(Len(pm), ind, outp, model(pm[ind + 1], size))
              IN  IF a.err # ""
                  THEN { [err |-> a.err, output |-> outp, calls |-> Append(calls, size)] }
                  ELSE ModelLoop(pm, ind + 1, a.output, Append(calls, size))
              : size \in 1..MaxQ }

\* np.linalg.lstsq(V, output): some N x Q matrix of coefficients
CoefMatrices(N, Q) == [1..N -> [1..Q -> 0..CoefMax]]

\* build_pce_wafp, lines 71-87: basis evaluation, preconditioning and the
\* solve.  With a row of zero norm the arrays handed to lstsq hold nan: it
\* raises LinAlgError or returns nan coefficients, and the row of self.output,
\* inf * 0, is nan.  The set of the ways the fit can end
Fit(self, smp, outp) ==
    LET idx == Val(self.indices)
        ev == eval(Val(self.distribution).polys, smp.p_standard, smp.d, idx.rows, NCols(idx))
        V == Precondition(ev.V)
        out == Val(outp)
        stored == [m \in 1..Len(out) |-> [vals |-> out[m], finite |-> V[m].finite]]
        done(coeffs) == [err |-> "", coefficients |-> coeffs, p |-> smp.p, output |-> stored]
        failed(e) == [err |-> e, coefficients |-> << >>, p |-> << >>, output |-> << >>]
    IN  IF ev.err # "" THEN { failed(ev.err) }
        ELSE IF IsNone(outp) THEN { failed("AttributeError") }
        ELSE IF HasNaN(V)
        THEN { failed("LinAlgError"),
               done([C |-> [n \in 1..NRows(idx) |-> [q \in 1..Len(out[1]) |-> 0]],
                     finite |-> FALSE]) }
        ELSE { done([C |-> C, finite |-> TRUE]) : C \in CoefMatrices(NRows(idx), Len(out[1])) }

\* faulty variant: the coefficients are cleared before the solve
Commit_ClearsFirst(old, fit) ==
    IF fit.err # "" THEN << None, old[2], old[3] >>
    ELSE << Some(fit.coefficients), Some(fit.p), Some(fit.output) >>

\* build_pce_wafp, lines 83-85: the attributes after a fit that ended as `fit`
\* on an object whose attributes were `old`; an exception assigns nothing
Commit(old, fit) ==
    IF fit.err # "" THEN old
    ELSE << Some(fit.coefficients), Some(fit.p), Some(fit.output) >>

\* PolynomialChaosExpansion.build / build_pce_wafp
build(samples, oversampling, sampler, K, fast_sampler, start, dir) ==
    /\ pc = "idle"
    /\ pc' = "returned"
    /\ UNCHANGED << indices, distribution, call >>
    /\ LET smp == BuildSamples(Self, samples, oversampling, sampler, K, fast_sampler,
                               rng, start, dir)
       IN  /\ rng' = smp.rng
           /\ IF smp.err # ""
              THEN /\ ret' = [op |-> "build", err |-> smp.err, val |-> << >>, calls |-> << >>]
                   /\ UNCHANGED fields
              ELSE \E run \in ModelLoop(smp.p, 0, None, << >>) :
                     IF run.err # ""
                     THEN /\ ret' = [op |-> "build", err |-> run.err, val |-> << >>,
                                     calls |-> run.calls]
                          /\ UNCHANGED fields
                     ELSE \E fit \in Fit(Self, smp, run.output) :
                            /\ coefficients' = Commit(fields, fit)[1]
                            /\ p' = Commit(fields, fit)[2]
                            /\ output' = Commit(fields, fit)[3]
                            /\ ret' = [op |-> "build", err |-> fit.err,
                                       val |-> IF fit.err = "" THEN "residuals" ELSE << >>,
                                       calls |-> run.calls]

\* build(model, samples=...)
build_with_samples(samples) == build(Some(samples), 0, "idist", None, TRUE, 0, 1)

\* build(model, **sampler_options), samples absent
build_with_wafp(oversampling, sampler, K, fast_sampler, start, dir) ==
    build(None, oversampling, sampler, K, fast_sampler, start, dir)

\* a call that raises: the exception leaves the method, nothing else is done
Fail(op, e) ==
    /\ ret' = Returned(op, Raise(e))
    /\ pc' = "returned"
    /\ call' = NoCall

\* the caller has taken the value or the exception of the call it made
resume ==
    /\ pc = "returned"
    /\ pc' = "idle"
    /\ ret' = NoOutcome
    /\ UNCHANGED << indices, distribution, coefficients, p, output, rng, call >>

\* ---------------------------------------------------------- the accessors
accessor(op, r) ==
    /\ pc = "idle"
    /\ pc' = "returned"
    /\ ret' = Returned(op, r)
    /\ UNCHANGED << indices, distribution, coefficients, p, output, rng, call >>

EvalComponents == {None, Some(<< 1, 0 >>)}
DimIndices == {None, Some(<< 0 >>), Some(<< 1 >>), Some(<< 0, 1 >>)}
DimLists == { << {0} >>, << {0}, {1} >>, << {0, 1} >>, << {0}, {1}, {0, 1} >> }

mean_call == accessor("mean", mean(Self))
stdev_call == accessor("stdev", stdev(Self))
pce_eval_call(pts, components) == accessor("pce_eval", pce_eval(Self, pts, components))
total_sensitivity_call(dim_indices) ==
    accessor("total_sensitivity", total_sensitivity(Self, dim_indices))
global_sensitivity_call(dim_lists) ==
    accessor("global_sensitivity", global_sensitivity(Self, dim_lists))

\* PolynomialChaosExpansion.quantile, lines 136-147: the guard, the batch size,
\* the zeroed result and the Monte Carlo samples (drawn by the distribution
\* from its own random source)
QuantileMs == {1, 400000, 600000, 2000000}

\* faulty variant: the batch size without the max, floor(10^6 / M)
BatchSize_NoMax(M, dim) == MaxFloats \div M

\* quantile, lines 139-142: MF = max(10^6, M, dim), pce_batch_size = floor(MF/M)
BatchSize(M, dim) == Max(Max(MaxFloats, M), dim) \div M

quantile_start(nq, M) ==
    /\ pc = "idle"
    /\ UNCHANGED << indices, distribution, coefficients, p, output >>
    /\ IF assert_pce_built(Self) # ""
       THEN Fail("quantile", assert_pce_built(Self)) /\ rng' = rng
       ELSE /\ pc' = "quantile_loop"
            /\ ret' = Returned("quantile", Ok("running"))
            /\ rng' = rng
            /\ call' = [op |-> "quantile", nq |-> nq, M |-> M,
                        pce_batch_size |-> BatchSize(M, Val(distribution).dim),
                        pce_counter |-> 0,
                        writes |-> [c \in 1..CoefCols(Self) |-> 0],
                        batches |-> << >>]

\* quantile, lines 149-156: one pass of the while loop
quantile_batch ==
    /\ pc = "quantile_loop"
    /\ call.pce_counter < CoefCols(Self)
    /\ UNCHANGED << indices, distribution, coefficients, p, output, rng >>
    /\ LET end_ind == Min(CoefCols(Self), call.pce_counter + call.pce_batch_size)
           inds == [k \in 1..(end_ind - call.pce_counter) |-> call.pce_counter + k - 1]
           e == PceEvalErr(Self, Val(distribution).dim, inds)
       IN  IF e # "" THEN Fail("quantile", e)
           ELSE /\ call' = [call EXCEPT
                      !.writes = [c \in 1..CoefCols(Self) |->
                                    IF c - 1 >= call.pce_counter /\ c - 1 < end_ind
                                    THEN call.writes[c] + 1 ELSE call.writes[c]],
                      !.batches = Append(call.batches, << call.pce_counter, end_ind >>),
                      !.pce_counter = end_ind]
                /\ UNCHANGED << pc, ret >>

\* quantile, line 158
quantile_return ==
    /\ pc = "quantile_loop"
    /\ call.pce_counter >= CoefCols(Self)
    /\ ret' = Returned("quantile", Ok([shape |-> << call.nq, CoefCols(Self) >>,
                                       writes |-> call.writes,
                                       batches |-> call.batches]))
    /\ pc' = "returned"
    /\ call' = NoCall
    /\ UNCHANGED << indices, distribution, coefficients, p, output, rng >>

\* ------------------------------------------------------------------- Spec
\* the builder: the constructor, the setters, build and the accessors
EvalPoints == {m.rows : m \in {sm \in SampleMatrices : Len(sm.rows) = 1}}

Accessors ==
    \/ mean_call
    \/ stdev_call
    \/ \E pts \in EvalPoints, components \in EvalComponents : pce_eval_call(pts, components)
    \/ \E dim_indices \in DimIndices : total_sensitivity_call(dim_indices)
    \/ \E dim_lists \in DimLists : global_sensitivity_call(dim_lists)

Quantile ==
    \/ \E nq \in 1..2, M \in QuantileMs : quantile_start(nq, M)
    \/ quantile_batch
    \/ quantile_return

Next ==
    \/ \E obj \in IndexSets \cup {Other} : set_indices(obj)
    \/ \E obj \in Distributions \cup {Other} : set_distribution(obj)
    \/ \E samples \in SampleMatrices : build_with_samples(samples)
    \/ \E o \in SamplerOptions, start \in 0..MaxStart, dir \in {1, -1} :
          build_with_wafp(o.oversampling, o.sampler, o.K, o.fast_sampler, start, dir)
    \/ Accessors
    \/ Quantile
    \/ resume

Spec == Init /\ [][Next]_vars


\* ------------------------------------------------- built expansions, drawn
\* the attributes after a successful build on N samples that gave coefficients C
Built(idx, dist, C) ==
    /\ indices = Some(idx)
    /\ distribution = Some(dist)
    /\ coefficients = Some([C |-> C, finite |-> TRUE])
    /\ p = Some([m \in 1..NRows(idx) |-> [k \in 1..NCols(idx) |-> 2]])
    /\ output = Some([m \in 1..NRows(idx) |->
                        [vals |-> [q \in 1..Len(C[1]) |-> 0], finite |-> TRUE]])
    /\ pc = "idle"
    /\ call = NoCall
    /\ ret = NoOutcome

SensIndexSets ==
    { MultiIndexSet(<< <<0, 0>>, <<1, 0>>, <<0, 1>> >>),
      MultiIndexSet(<< <<0, 0>>, <<1, 1>>, <<0, 2>> >>),
      MultiIndexSet(<< <<0, 0>>, <<1, 1>> >>),
      MultiIndexSet(<< <<0, 0>>, <<0, 0>>, <<2, 0>> >>),
      MultiIndexSet(<< <<1, 0>>, <<0, 0>> >>) }

InitSens ==
    /\ rng = 0
    /\ \E idx \in SensIndexSets, Q \in 1..2 :
         \E C \in [1..NRows(idx) -> [1..Q -> 0..SensCoefMax]] :
            Built(idx, ProbabilityDistribution(2, FALSE), C)

NextSens == Accessors \/ resume

SpecSens == InitSens /\ [][NextSens]_vars

InitQuantile ==
    /\ rng = 0
    /\ \E idx \in IndexSets, dist \in Distributions, Q \in 0..MaxQuantileQ :
         Built(idx, dist, [n \in 1..NRows(idx) |-> [q \in 1..Q |-> 1]])

NextQuantile == Quantile \/ resume

\* the while loop of quantile runs on until its condition fails: a pass that
\* can be taken is taken, and the method returns when the loop is over
SpecQuantile ==
    /\ InitQuantile
    /\ [][NextQuantile]_vars
    /\ WF_vars(quantile_batch)
    /\ WF_vars(quantile_return)

\* ------------------------------------------------------------ the samplers
SamplingBases ==
    { [polys |-> [dim |-> 1, isotropic |-> TRUE], indices |-> << <<0>>, <<1>>, <<2>> >>],
      [polys |-> [dim |-> 1, isotropic |-> TRUE], indices |-> << <<1>> >>],
      [polys |-> [dim |-> 2, isotropic |-> TRUE], indices |-> << <<0, 0>>, <<1, 0>>, <<0, 1>> >>],
      [polys |-> [dim |-> 2, isotropic |-> FALSE], indices |-> << <<0, 0>>, <<1, 1>> >>],
      [polys |-> [dim |-> 2, isotropic |-> TRUE], indices |-> << <<0>>, <<1>> >>] }

\* the candidate pool size argument: absent, smaller than, equal to and larger
\* than the number M of points to select
PoolArgs(M) == {None, Some(1), Some(M), Some(M + PoolMargin + 1)}

WafpCalls ==
    UNION { { [op |-> "wafp_sampling", polys |-> b.polys, indices |-> b.indices,
               oversampling |-> os, sampler |-> sampler, K |-> K, fast_sampler |-> fast]
              : K \in PoolArgs(Len(b.indices) + os) }
            : b \in SamplingBases, os \in 0..MaxOversampling,
              sampler \in {"idist", "uniform"}, fast \in BOOLEAN }

MixCalls ==
    { [op |-> "idist_mixture_sampling", polys |-> b.polys, M |-> M, Lambdas |-> b.indices,
       fast_sampler |-> fast]
      : b \in SamplingBases, M \in 0..MaxDraws, fast \in BOOLEAN }

InitSampling ==
    /\ indices = None
    /\ distribution = None
    /\ coefficients = None
    /\ p = None
    /\ output = None
    /\ rng \in 0..Grid - 1
    /\ pc = "idle"
    /\ call \in WafpCalls \cup MixCalls
    /\ ret = NoOutcome

wafp_sampling_call(start, dir) ==
    /\ pc = "idle"
    /\ call.op = "wafp_sampling"
    /\ LET w == wafp_sampling(call.polys, call.indices, Len(call.indices[1]),
                              call.oversampling, call.sampler, call.K, call.fast_sampler,
                              rng, start, dir)
       IN  /\ ret' = [op |-> "wafp_sampling", err |-> w.err, val |-> w, calls |-> << >>]
           /\ rng' = w.rng
    /\ pc' = "returned"
    /\ UNCHANGED << indices, distribution, coefficients, p, output, call >>

idist_mixture_sampling_call ==
    /\ pc = "idle"
    /\ call.op = "idist_mixture_sampling"
    /\ LET r == idist_mixture_sampling(call.polys, call.M, call.Lambdas,
                                       Len(call.Lambdas[1]), call.fast_sampler, rng)
       IN  /\ ret' = [op |-> "idist_mixture_sampling", err |-> r.err, val |-> r,
                      calls |-> << >>]
           /\ rng' = r.rng
    /\ pc' = "returned"
    /\ UNCHANGED << indices, distribution, coefficients, p, output, call >>

NextSampling ==
    \/ \E start \in 0..MaxStart, dir \in {1, -1} : wafp_sampling_call(start, dir)
    \/ idist_mixture_sampling_call
    \/ resume

SpecSampling == InitSampling /\ [][NextSampling]_vars


\* ------------------------------------------------------------- properties
BuildReturned == pc = "returned" /\ ret.op = "build"
BuildStep == pc = "idle" /\ ret'.op = "build"
AccessorOps == {"mean", "stdev", "pce_eval", "quantile", "total_sensitivity",
                "global_sensitivity"}

\* C1: a build on a builder whose indices or distribution is unset fails with
\* NotConfigured, calls the model not once and leaves coefficients, p and
\* output as they were; a build that gets past the configuration check had both set
C1_BuildNeedsConfiguration ==
    [][BuildStep =>
         /\ (IsNone(indices) \/ IsNone(distribution)) =>
               (ret'.err = "NotConfigured" /\ ret'.calls = << >> /\ fields' = fields)
         /\ ret'.err # "NotConfigured" => (~IsNone(indices) /\ ~IsNone(distribution))]_vars

C1_Witness ==
    /\ BuildReturned
    /\ ret.err = "NotConfigured"
    /\ ~IsNone(indices)
    /\ IsNone(distribution)

\* C2: in every state that is not Built, every accessor fails with NotBuilt
C2_AccessorsFailNotBuilt ==
    (pc = "returned" /\ ret.op \in AccessorOps /\ IsNone(coefficients)) => ret.err = "NotBuilt"

\* coefficients, p and output are unset together or set together, with
\* matching shapes
C3_TripleTogether ==
    /\ IsNone(coefficients) <=> IsNone(p)
    /\ IsNone(coefficients) <=> IsNone(output)
    /\ ~IsNone(coefficients) =>
          /\ Len(Val(p)) = Len(Val(output))
          /\ \A m \in 1..Len(Val(output)) : Len(Val(output)[m].vals) = CoefCols(Self)

\* C3: a build that fails at any step leaves coefficients, p and output as they
\* were: a builder never built stays so, a built one keeps its triple together
C3_FailedBuildKeepsState ==
    /\ [][(BuildStep /\ ret'.err # "") => fields' = fields]_vars
    /\ []C3_TripleTogether

C3_Witness ==
    /\ BuildReturned
    /\ ret.err \in {"ModelError", "InconsistentOutputShape", "LinAlgError", "AssertionError"}
    /\ ~IsNone(coefficients)

\* C5: the first model evaluation fixes the output size Q, and a later
\* evaluation of another size makes build fail with InconsistentOutputShape
C5_OutputSizeMismatchFails ==
    (BuildReturned /\ \E i \in 2..Len(ret.calls) :
                         ret.calls[i] >= 0 /\ ret.calls[i] # ret.calls[1])
       => ret.err = "InconsistentOutputShape"

\* C6: a row of V of zero norm makes preconditioning fail with DegenerateDesign:
\* no build gets as far as the solve with it (LinAlgError) or stores arrays
\* that are not finite
C6_ZeroNormRowFails ==
    BuildReturned =>
       /\ ret.err # "LinAlgError"
       /\ ret.err = "" =>
             /\ Coef(Self).finite
             /\ \A m \in 1..Len(Val(output)) : Val(output)[m].finite

\* C4: wafp_sampling returns exactly N + oversampling rows, each a row of the
\* candidate pool, the rows the selection names, which are distinct
C4_WafpRowCount ==
    (pc = "returned" /\ ret.op = "wafp_sampling" /\ ret.err = "") =>
       LET w == ret.val
       IN  /\ Len(w.x) = Len(call.indices) + call.oversampling
           /\ \A i \in 1..Len(w.x) :
                 /\ w.P[i] \in 1..Len(w.pool)
                 /\ w.x[i] = w.pool[w.P[i]]
           /\ \A i, j \in 1..Len(w.P) : i # j => w.P[i] # w.P[j]

C4_Witness ==
    /\ pc = "returned" /\ ret.op = "wafp_sampling" /\ ret.err = ""
    /\ call.K = Some(1)
    /\ Len(ret.val.x) = 4
    /\ call.oversampling = 1

\* C8: every component index picked by idist_mixture_sampling lies in 1..N
C8_ComponentIndexInRange ==
    (pc = "returned" /\ ret.op = "idist_mixture_sampling" /\ ret.err = "") =>
       \A i \in 1..Len(ret.val.ks) : ret.val.ks[i] \in 1..Len(call.Lambdas)

\* C9 as stated: the pool holds N + oversampling + 40 points when no size is
\* requested and max(K, N + oversampling + 40) when K is requested
C9_PoolSizeAsStated ==
    (pc = "returned" /\ ret.op = "wafp_sampling" /\ ret.err = "") =>
       LET M == Len(call.indices) + call.oversampling
       IN  Len(ret.val.pool) = IF IsNone(call.K) THEN M + PoolMargin
                               ELSE Max(Val(call.K), M + PoolMargin)

\* C9 amended: the pool holds N + oversampling + 40 points when no size is
\* requested and max(K, N + oversampling) when K is requested; in every case
\* it is at least as large as the number of points to select
C9_PoolSize ==
    (pc = "returned" /\ ret.op = "wafp_sampling" /\ ret.err = "") =>
       LET M == Len(call.indices) + call.oversampling
       IN  /\ Len(ret.val.pool) = IF IsNone(call.K) THEN M + PoolMargin
                                  ELSE Max(Val(call.K), M)
           /\ Len(ret.val.pool) >= M

C9_Witness ==
    /\ pc = "returned" /\ ret.op = "wafp_sampling" /\ ret.err = ""
    /\ call.K = Some(1)
    /\ Len(ret.val.pool) = Len(call.indices) + call.oversampling
    /\ Len(ret.val.pool) > 1

\* the index set starts with the zero multi-index
ZeroFirstRow == \A k \in 1..NCols(Val(indices)) : Val(indices).rows[1][k] = 0

\* no multi-index is positive in more than one dimension
NoInteraction ==
    \A n \in 1..NRows(Val(indices)) :
       Cardinality({k \in 1..NCols(Val(indices)) : Val(indices).rows[n][k] > 0}) <= 1

TotalSensitivityReturned ==
    pc = "returned" /\ ret.op = "total_sensitivity" /\ ret.err = "" /\ ZeroFirstRow

\* the sum over the requested dimensions of the numerators, for component q
SumNum(val, q) == SumSeq([qj \in 1..Len(val) |-> val[qj][q].num])

\* C7 as stated: with row 0 the zero multi-index and a nonzero variance, the
\* total sensitivities of distinct single dimensions sum to at most 1
C7_TotalSensitivitySumAsStated ==
    TotalSensitivityReturned =>
       \A q \in 1..CoefCols(Self) :
          (Len(ret.val) > 0 /\ ret.val[1][q].den > 0) =>
             SumNum(ret.val, q) <= ret.val[1][q].den

\* C7 amended: each total sensitivity is at most 1, and those of distinct
\* single dimensions sum to at most 1 when no multi-index is positive in more
\* than one dimension
C7_TotalSensitivityBound ==
    TotalSensitivityReturned =>
       \A q \in 1..CoefCols(Self) :
          (Len(ret.val) > 0 /\ ret.val[1][q].den > 0) =>
             /\ \A qj \in 1..Len(ret.val) : ret.val[qj][q].num <= ret.val[qj][q].den
             /\ NoInteraction => SumNum(ret.val, q) <= ret.val[1][q].den

C7_Witness ==
    /\ TotalSensitivityReturned
    /\ NoInteraction
    /\ Len(ret.val) = 2
    /\ ret.val[1][1].num > 0
    /\ ret.val[2][1].num > 0
    /\ ret.val[1][1].num + ret.val[2][1].num = ret.val[1][1].den

\* the batch size is floor(MF/M) >= 1, the batches so far are consecutive
\* non-empty ranges from 0 up to pce_counter, and each column below pce_counter
\* has been written once, the others not yet
C10_BatchInvariant ==
    /\ pc = "quantile_loop" =>
          LET Q == CoefCols(Self)
              n == Len(call.batches)
          IN  /\ call.pce_batch_size >= 1
              /\ call.pce_batch_size =
                    Max(Max(MaxFloats, call.M), Val(distribution).dim) \div call.M
              /\ call.pce_counter <= Q
              /\ n <= call.pce_counter
              /\ \A b \in 1..n :
                    /\ call.batches[b][1] < call.batches[b][2]
                    /\ call.batches[b][1] = IF b = 1 THEN 0 ELSE call.batches[b - 1][2]
              /\ n > 0 => call.batches[n][2] = call.pce_counter
              /\ \A c \in 1..Q :
                    call.writes[c] = IF c - 1 < call.pce_counter THEN 1 ELSE 0
    /\ (pc = "returned" /\ ret.op = "quantile" /\ ret.err = "") =>
          /\ ret.val.shape[2] = CoefCols(Self)
          /\ \A c \in 1..CoefCols(Self) : ret.val.writes[c] = 1

\* C10: the batching loop of quantile terminates, its batch size is
\* floor(MF/M) >= 1 with MF = max(10^6, M, dim), and its batches are consecutive,
\* non-overlapping ranges that cover every output component exactly once
C10_QuantileBatches ==
    /\ []C10_BatchInvariant
    /\ (pc = "quantile_loop") ~> (pc = "returned" /\ ret.op = "quantile")

C10_Witness ==
    /\ pc = "returned" /\ ret.op = "quantile" /\ ret.err = ""
    /\ Len(ret.val.batches) = 2
    /\ ret.val.batches[1] = << 0, 2 >>

====
